---- MODULE Spec2Model ----
(***************************************************************************)
(* web3ref: the gateway protocol core of handlers.py (BaseHandler and      *)
(* SimpleHandler) together with the helpers of util.py it relies on.       *)
(*                                                                         *)
(* A byte string is a record [kind |-> "bytes", chars |-> <sequence of     *)
(* one-character strings>]; a unicode string has kind "unicode"; Python's  *)
(* None is the record None.  The transport (stdout) is the sequence `out`  *)
(* of the byte strings handed to stdout.write, in order.                   *)
(***************************************************************************)
EXTENDS Integers, Sequences, FiniteSets, TLC

(* ------------------------------------------------------------------ *)
(* Bounds of the model                                                 *)
(* ------------------------------------------------------------------ *)
MaxHeaders == 2      \* longest header list an application returns
MaxChunks  == 2      \* longest body (number of chunks) an application returns
MaxRuns    == 2      \* how many times run() is called on one handler
MaxSegments == 3     \* most segments of a PATH_INFO
MaxShifts  == 4      \* most calls of shift_path_info an application makes
MaxDirect  == 1      \* most calls of write() from outside of finish_response

(* ------------------------------------------------------------------ *)
(* Values                                                              *)
(* ------------------------------------------------------------------ *)
None == [kind |-> "None"]
Bytes(c) == [kind |-> "bytes", chars |-> c]
Unicode(c) == [kind |-> "unicode", chars |-> c]
Dict(m) == [kind |-> "dict", map |-> m]
Stream(n) == [kind |-> "stream", name |-> n]

\* isinstance(v, bytes)
IsBytes(v) == v.kind = "bytes"

\* Python truthiness of None / a byte string ("not self.status")
Truthy(v) == v.kind # "None" /\ (v.kind \in {"bytes", "unicode"} => Len(v.chars) > 0)

UpperLetters == <<"A","B","C","D","E","F","G","H","I","J","K","L","M",
                  "N","O","P","Q","R","S","T","U","V","W","X","Y","Z">>
LowerLetters == <<"a","b","c","d","e","f","g","h","i","j","k","l","m",
                  "n","o","p","q","r","s","t","u","v","w","x","y","z">>
Digits == <<"0","1","2","3","4","5","6","7","8","9">>
Whitespace == {" ", "\t", "\n", "\r", "\f"}

IndexIn(seq, c) == IF \E i \in 1..Len(seq) : seq[i] = c
                   THEN CHOOSE i \in 1..Len(seq) : seq[i] = c
                   ELSE 0

LowerChar(c) == IF IndexIn(UpperLetters, c) # 0 THEN LowerLetters[IndexIn(UpperLetters, c)] ELSE c
UpperChar(c) == IF IndexIn(LowerLetters, c) # 0 THEN UpperLetters[IndexIn(LowerLetters, c)] ELSE c

\* bytes.lower() / bytes.upper()
Lower(s) == [i \in 1..Len(s) |-> LowerChar(s[i])]
Upper(s) == [i \in 1..Len(s) |-> UpperChar(s[i])]

IsDigit(c) == IndexIn(Digits, c) # 0
DigitVal(c) == IndexIn(Digits, c) - 1

\* s[a:b] of Python, 0-based, for 0 <= a <= b
Slice(s, a, b) == SubSeq(s, a + 1, IF b > Len(s) THEN Len(s) ELSE b)

CRLF == <<"\r", "\n">>

(* ------------------------------------------------------------------ *)
(* util.py                                                             *)
(* ------------------------------------------------------------------ *)

\* _hoppish: the keys of the hop-by-hop table
_hoppish ==
    { <<"c","o","n","n","e","c","t","i","o","n">>,
      <<"k","e","e","p","-","a","l","i","v","e">>,
      <<"p","r","o","x","y","-","a","u","t","h","e","n","t","i","c","a","t","e">>,
      <<"p","r","o","x","y","-","a","u","t","h","o","r","i","z","a","t","i","o","n">>,
      <<"t","e">>,
      <<"t","r","a","i","l","e","r","s">>,
      <<"t","r","a","n","s","f","e","r","-","e","n","c","o","d","i","n","g">>,
      <<"u","p","g","r","a","d","e">> }

\* is_hop_by_hop(header_name), header_name a byte string
\* (is_hop_by_hop_exact: the lookup without lower())
is_hop_by_hop_exact(header_name) == header_name.chars \in _hoppish
is_hop_by_hop(header_name) == Lower(header_name.chars) \in _hoppish

\* dict.get(key) with default None
Get(environ, key) == IF key \in DOMAIN environ.map THEN environ.map[key] ELSE None

\* dict.update(other) / item assignment
Update(d, e) == Dict([k \in DOMAIN d.map \cup DOMAIN e.map |->
                        IF k \in DOMAIN e.map THEN e.map[k] ELSE d.map[k]])
SetItem(d, k, v) == Dict([j \in DOMAIN d.map \cup {k} |-> IF j = k THEN v ELSE d.map[j]])

\* guess_scheme(environ)
guess_scheme(environ) ==
    IF Get(environ, "HTTPS") \in {Bytes(<<"y","e","s">>), Bytes(<<"o","n">>), Bytes(<<"1">>)}
    THEN Bytes(<<"h","t","t","p","s">>)
    ELSE Bytes(<<"h","t","t","p">>)

\* bytes.split(b'/') and b'/'.join(parts), on character sequences
RECURSIVE Split(_)
Split(s) ==
    IF \A i \in 1..Len(s) : s[i] # "/" THEN << s >>
    ELSE LET i == CHOOSE j \in 1..Len(s) :
                    s[j] = "/" /\ \A k \in 1..(j - 1) : s[k] # "/"
         IN  << SubSeq(s, 1, i - 1) >> \o Split(SubSeq(s, i + 1, Len(s)))

RECURSIVE Join(_)
Join(parts) ==
    IF Len(parts) = 0 THEN << >>
    ELSE IF Len(parts) = 1 THEN parts[1]
    ELSE parts[1] \o <<"/">> \o Join(Tail(parts))

\* [p for p in parts if p and p != b'.']
RECURSIVE Named(_)
Named(parts) ==
    IF Len(parts) = 0 THEN << >>
    ELSE IF Head(parts) \in { << >>, <<".">> } THEN Named(Tail(parts))
    ELSE << Head(parts) >> \o Named(Tail(parts))

\* the loop of posixpath.normpath over the components: '' and '.' are
\* skipped; '..' removes the component before it, is dropped at the root,
\* and is kept in a relative path that has nothing left to remove
RECURSIVE Normalized(_, _, _)
Normalized(comps, new_comps, rooted) ==
    IF Len(comps) = 0 THEN new_comps
    ELSE LET comp == Head(comps)
             n == Len(new_comps)
         IN  IF comp \in { << >>, <<".">> }
             THEN Normalized(Tail(comps), new_comps, rooted)
             ELSE IF \/ comp # <<".", ".">>
                     \/ (~rooted /\ n = 0)
                     \/ (n > 0 /\ new_comps[n] = <<".", ".">>)
             THEN Normalized(Tail(comps), Append(new_comps, comp), rooted)
             ELSE IF n > 0
             THEN Normalized(Tail(comps), SubSeq(new_comps, 1, n - 1), rooted)
             ELSE Normalized(Tail(comps), new_comps, rooted)

\* posixpath.normpath(path)
normpath(path) ==
    IF Len(path) = 0 THEN <<".">>
    ELSE LET initial_slashes ==
                 IF path[1] # "/" THEN 0
                 ELSE IF Len(path) >= 2 /\ path[2] = "/" /\ ~(Len(path) >= 3 /\ path[3] = "/")
                 THEN 2 ELSE 1
             joined == Join(Normalized(Split(path), << >>, initial_slashes > 0))
             whole == [i \in 1..initial_slashes |-> "/"] \o joined
         IN  IF Len(whole) = 0 THEN <<".">> ELSE whole

\* environ.get(key, b'')
GetOr(environ, key, default) ==
    IF key \in DOMAIN environ.map THEN environ.map[key] ELSE default

\* path_parts after `path_parts[1:-1] = [p for p in path_parts[1:-1] if p and
\* p != b'.']`: the first and the last part stay as they are
path_parts_of(path_info) ==
    LET split == Split(path_info)
        n == Len(split)
    IN  IF n >= 2
        THEN << split[1] >> \o Named(SubSeq(split, 2, n - 1)) \o << split[n] >>
        ELSE split

\* b'/'.join(path_parts) after `del path_parts[1]`
\* (path_info_without_del: the join without the del;
\* path_info_del_first: the join after `del path_parts[0]`)
path_info_without_del(path_parts) == Join(path_parts)
path_info_del_first(path_parts) == Join(Tail(path_parts))
path_info_after(path_parts) ==
    Join(<< path_parts[1] >> \o SubSeq(path_parts, 3, Len(path_parts)))

\* the new SCRIPT_NAME: normpath(script_name + b'/' + name), without a
\* trailing slash, and with one again when name is empty
\* (script_name_unnormalized: script_name + b'/' + name as it is)
script_name_unnormalized(script_name, name) == script_name \o <<"/">> \o name
script_name_after(script_name, name) ==
    LET normal == normpath(script_name \o <<"/">> \o name)
        stripped == IF normal[Len(normal)] = "/"
                    THEN SubSeq(normal, 1, Len(normal) - 1) ELSE normal
    IN  IF Len(name) = 0 /\ ~(Len(stripped) > 0 /\ stripped[Len(stripped)] = "/")
        THEN stripped \o <<"/">> ELSE stripped

\* shift_path_info(environ): [ret |-> what it returns, raised |-> the exception
\* it raises or "none", environ |-> the mapping afterwards]
shift_path_info(environ) ==
    LET path_info == GetOr(environ, "PATH_INFO", Bytes(<< >>)).chars
        path_parts == path_parts_of(path_info)
    IN  IF Len(path_info) = 0
        THEN [ret |-> None, raised |-> "none", environ |-> environ]
        ELSE IF Len(path_parts) < 2
        THEN [ret |-> None, raised |-> "IndexError", environ |-> environ]
        ELSE
        LET name == path_parts[2]
            script_name == GetOr(environ, "SCRIPT_NAME", Bytes(<< >>)).chars
        IN  [ret |-> IF name = <<".">> THEN None ELSE Bytes(name),
             raised |-> "none",
             environ |-> SetItem(SetItem(environ, "SCRIPT_NAME",
                                         Bytes(script_name_after(script_name, name))),
                                 "PATH_INFO", Bytes(path_info_after(path_parts)))]

\* urllib.quote(s): letters, digits and '_.-/' stay, any other byte becomes
\* '%XX' (the bytes the model's inputs contain besides the safe ones)
PercentCodes == [c \in {" ", "%", "?", ":"} |->
                   CASE c = " " -> <<"%","2","0">>
                     [] c = "%" -> <<"%","2","5">>
                     [] c = "?" -> <<"%","3","F">>
                     [] c = ":" -> <<"%","3","A">>]

RECURSIVE quote(_)
quote(s) ==
    IF Len(s) = 0 THEN << >>
    ELSE (IF Head(s) \in DOMAIN PercentCodes THEN PercentCodes[Head(s)] ELSE << Head(s) >>)
         \o quote(Tail(s))

Raised(e) == [kind |-> "raised", exc |-> e]

\* application_uri(environ), with the key the scheme is read from: the
\* URI, or the exception a missing key raises
UriFrom(environ, scheme_key) ==
    IF scheme_key \notin DOMAIN environ.map THEN Raised("KeyError")
    ELSE
    LET scheme == environ.map[scheme_key].chars
        script == IF Truthy(Get(environ, "SCRIPT_NAME"))
                  THEN environ.map["SCRIPT_NAME"].chars ELSE <<"/">>
    IN  IF Truthy(Get(environ, "HTTP_HOST"))
        THEN Bytes(scheme \o <<":","/","/">> \o environ.map["HTTP_HOST"].chars
                   \o quote(script))
        ELSE IF {"SERVER_NAME", "SERVER_PORT"} \subseteq DOMAIN environ.map
        THEN LET port == environ.map["SERVER_PORT"].chars
                 default == IF scheme = <<"h","t","t","p","s">>
                            THEN <<"4","4","3">> ELSE <<"8","0">>
             IN  Bytes(scheme \o <<":","/","/">> \o environ.map["SERVER_NAME"].chars
                       \o (IF port # default THEN <<":">> \o port ELSE << >>)
                       \o quote(script))
        ELSE Raised("KeyError")

application_uri(environ) == UriFrom(environ, "wsgi.url_scheme")

(* ------------------------------------------------------------------ *)
(* Python built-ins used by the validator                              *)
(* ------------------------------------------------------------------ *)
RECURSIVE LStrip(_)
LStrip(s) == IF Len(s) > 0 /\ s[1] \in Whitespace THEN LStrip(Tail(s)) ELSE s
RECURSIVE RStrip(_)
RStrip(s) == IF Len(s) > 0 /\ s[Len(s)] \in Whitespace
             THEN RStrip(SubSeq(s, 1, Len(s) - 1)) ELSE s

RECURSIVE DecimalValue(_)
DecimalValue(s) == IF Len(s) = 0 THEN 0
                   ELSE 10 * DecimalValue(SubSeq(s, 1, Len(s) - 1)) + DigitVal(s[Len(s)])

\* int(s) for a byte string: surrounding whitespace is stripped, one sign is
\* accepted, the rest must be one or more decimal digits; anything else is a
\* ValueError.  Result: [ok |-> BOOLEAN, val |-> Int].
PyInt(s) ==
    LET t == RStrip(LStrip(s))
        signed == Len(t) > 0 /\ t[1] \in {"+", "-"}
        d == IF signed THEN Tail(t) ELSE t
    IN  IF Len(d) > 0 /\ \A i \in 1..Len(d) : IsDigit(d[i])
        THEN [ok |-> TRUE,
              val |-> IF signed /\ t[1] = "-" THEN 0 - DecimalValue(d) ELSE DecimalValue(d)]
        ELSE [ok |-> FALSE, val |-> 0]

(* ------------------------------------------------------------------ *)
(* handlers.py: format_date_time                                       *)
(* ------------------------------------------------------------------ *)
_weekdayname == << <<"M","o","n">>, <<"T","u","e">>, <<"W","e","d">>, <<"T","h","u">>,
                   <<"F","r","i">>, <<"S","a","t">>, <<"S","u","n">> >>
_monthname == << <<"J","a","n">> >>     \* only January is reached by Timestamps

TwoDigits(n) == <<Digits[(n \div 10) + 1], Digits[(n % 10) + 1]>>
FourDigits(n) == TwoDigits(n \div 100) \o TwoDigits(n % 100)

\* time.gmtime(timestamp) for a timestamp within January 1970:
\* the epoch is Thursday (tm_wday 3), 1 January 1970, 00:00:00
gmtime(timestamp) ==
    [year |-> 1970, month |-> 1, day |-> (timestamp \div 86400) + 1,
     hh |-> (timestamp % 86400) \div 3600,
     mm |-> (timestamp % 3600) \div 60,
     ss |-> timestamp % 60,
     wd |-> (3 + (timestamp \div 86400)) % 7]

\* "%s, %02d %3s %4d %02d:%02d:%02d GMT"
format_date_time(timestamp) ==
    LET t == gmtime(timestamp)
    IN  _weekdayname[t.wd + 1] \o <<",", " ">> \o TwoDigits(t.day) \o <<" ">>
        \o _monthname[t.month] \o <<" ">> \o FourDigits(t.year) \o <<" ">>
        \o TwoDigits(t.hh) \o <<":">> \o TwoDigits(t.mm) \o <<":">> \o TwoDigits(t.ss)
        \o <<" ", "G", "M", "T">>

\* the values time.time() returns in the model: 1 Jan 1970 00:00:00 and
\* 2 Jan 1970 01:01:01
Timestamps == {0, 90061}

(* ------------------------------------------------------------------ *)
(* Responses                                                           *)
(* ------------------------------------------------------------------ *)
Header(n, v) == [name |-> n, val |-> v]
List(items) == [kind |-> "list", items |-> items]
\* a body: a list of chunks, or an iterator object (generator, file-like)
\* that has a close() method, which may raise
Body(k, chunks, r) == [kind |-> k, chunks |-> chunks, close_raises |-> r]
Triple(s, h, b) == [kind |-> "triple", status |-> s, headers |-> h, body |-> b]
Callable == [kind |-> "callable"]

\* hasattr(body, 'close')
HasClose(b) == b.kind = "iterator"

RECURSIVE SumLen(_)
SumLen(chunks) == IF Len(chunks) = 0 THEN 0
                  ELSE Len(Head(chunks).chars) + SumLen(Tail(chunks))

\* class attributes of BaseHandler
http_version == Bytes(<<"1", ".", "0">>)
error_status == Bytes(<<"5","0","0"," ","D","u","d","e",","," ","t","h","i","s"," ",
                        "i","s"," ","w","h","a","c","k","!">>)
error_headers == List(<< Header(Bytes(<<"C","o","n","t","e","n","t","-","T","y","p","e">>),
                                Bytes(<<"t","e","x","t","/","p","l","a","i","n">>)) >>)
error_body ==
    Body("list",
         << Bytes(<<"A"," ","s","e","r","v","e","r"," ","e","r","r","o","r"," ","o","c","c","u","r","r","e","d","."," ","C">>
                  \o <<"o","n","t","a","c","t"," ","t","h","e"," ","a","d","m","i","n","i","s","t","r","a","t","o","r",".">>) >>,
         FALSE)
web3_version == [kind |-> "tuple", items |-> <<1, 0>>]
web3_run_once == FALSE
web3_async == FALSE

\* error_output(environ)
\* (error_output_without_headers: the triple with error_headers left out)
error_output_without_headers(environ) == Triple(error_status, List(<< >>), error_body)
error_output(environ) == Triple(error_status, error_headers, error_body)

(* ------------------------------------------------------------------ *)
(* Inputs: what a handler is constructed with, what applications do    *)
(* ------------------------------------------------------------------ *)
HTTP10 == Bytes(<<"H","T","T","P","/","1",".","0">>)
HTTP09 == Bytes(<<"H","T","T","P","/","0",".","9">>)
http09 == Bytes(<<"h","t","t","p","/","0",".","9">>)

\* os_environ: the snapshot of the process environment (get_environ())
os_environ == Dict([PATH |-> Bytes(<<"/","b","i","n">>)])

FullEnv(proto) ==
    Dict([SERVER_NAME |-> Bytes(<<"h">>), SERVER_PORT |-> Bytes(<<"8","0">>),
          SCRIPT_NAME |-> Bytes(<<>>), PATH_INFO |-> Bytes(<<"/">>),
          REQUEST_METHOD |-> Bytes(<<"G","E","T">>), SERVER_PROTOCOL |-> proto])
\* the mappings a transport hands to SimpleHandler: complete ones, one
\* without SERVER_PROTOCOL and one without SCRIPT_NAME
BaseEnvs ==
    { FullEnv(HTTP10), FullEnv(HTTP09), FullEnv(http09),
      Dict([SCRIPT_NAME |-> Bytes(<<>>), PATH_INFO |-> Bytes(<<"/">>)]),
      Dict([SERVER_PROTOCOL |-> HTTP10, PATH_INFO |-> Bytes(<<"/">>)]) }

ServerSoftwares == { None, Bytes(<<"W","3">>) }

\* the mappings of requests whose application walks PATH_INFO or asks for
\* its base URI: every PATH_INFO of up to MaxSegments segments after a
\* leading slash, the empty one and two without leading slash, under three
\* SCRIPT_NAMEs; and requests with a Host header, a server port that is not
\* the default, or a 'wsgi.url_scheme' key supplied by the transport
Segments == { <<"a">>, <<"b">>, <<"c">>, <<".">>, <<".", ".">>, << >> }
Paths ==
    { <<"/">> \o Join(segs) :
        segs \in UNION { [1..k -> Segments] : k \in 1..MaxSegments } }
    \cup { << >>, <<"a">>, <<"a","/","b">> }
ScriptNames == { << >>, <<"/","x">>, <<"/","x","/">>, <<"/","x"," ","y">> }
ExampleCom == Bytes(<<"e","x","a","m","p","l","e",".","c","o","m">>)
PathEnv(path_info, script_name) ==
    Update(FullEnv(HTTP10),
           Dict([PATH_INFO |-> Bytes(path_info), SCRIPT_NAME |-> Bytes(script_name)]))
UriExtras ==
    { Dict([HTTP_HOST |-> ExampleCom]),
      Dict(("HTTP_HOST" :> ExampleCom) @@ ("wsgi.url_scheme" :> Bytes(<<"h","t","t","p">>))),
      Dict(("wsgi.url_scheme" :> Bytes(<<"h","t","t","p">>))),
      Dict(("wsgi.url_scheme" :> Bytes(<<"h","t","t","p","s">>))),
      Dict(("SERVER_PORT" :> Bytes(<<"8","0","8","0">>))
           @@ ("wsgi.url_scheme" :> Bytes(<<"h","t","t","p">>))) }
UtilEnvs ==
    { PathEnv(p, sn) : p \in Paths, sn \in ScriptNames }
    \cup { Update(PathEnv(<<"/">>, sn), x) : sn \in ScriptNames, x \in UriExtras }

Status200 == Bytes(<<"2","0","0"," ","O","K">>)
Statuses ==
    { Status200,
      Bytes(<<"2","0","0">>),                   \* too short
      Bytes(<<"x","0","0"," ","O","K">>),       \* no number
      Bytes(<<"0","0","0"," ","O","K">>),       \* zero
      Bytes(<<"2","0","0","O","K">>),           \* no space after the code
      Bytes(<<"-","1","2"," ","O","K">>),       \* a signed number
      Bytes(<<"2"," "," "," ","O","K">>),       \* a padded number
      Unicode(<<"2","0","0"," ","O","K">>) }    \* not bytes

ContentLength5 == Header(Bytes(<<"C","o","n","t","e","n","t","-","L","e","n","g","t","h">>),
                         Bytes(<<"5">>))
DateHeader == Header(Bytes(<<"d","a","t","e">>), Bytes(<<"n","o","w">>))
ServerHeader == Header(Bytes(<<"S","E","R","V","E","R">>), Bytes(<<"m","e">>))
HeaderPairs ==
    { ContentLength5, DateHeader, ServerHeader,
      Header(Bytes(<<"T","E">>), Bytes(<<"x">>)),
      Header(Bytes(<<"u","p","g","r","a","d","e">>), Bytes(<<"x">>)),
      Header(Unicode(<<"X">>), Bytes(<<"x">>)),
      Header(Bytes(<<"X">>), Unicode(<<"x">>)) }

SeqsUpTo(S, n) == UNION { [1..k -> S] : k \in 0..n }

HeaderLists == { List(items) : items \in SeqsUpTo(HeaderPairs, MaxHeaders) }

Hello == Bytes(<<"H","e","l","l","o">>)
Chunks == { Hello, Bytes(<<"a","b">>) }
Bodies == { Body(k.kind, c, k.r) :
              k \in { [kind |-> "list", r |-> FALSE], [kind |-> "iterator", r |-> FALSE],
                      [kind |-> "iterator", r |-> TRUE] },
              c \in SeqsUpTo(Chunks, MaxChunks) }

HeadersCL == List(<<ContentLength5>>)
BodyHello == Body("list", <<Hello>>, FALSE)
IterHello == Body("iterator", <<Hello>>, FALSE)

\* what application(environ) returns
AppResults ==
    { Triple(s, HeadersCL, b) : s \in Statuses, b \in {BodyHello, IterHello} }
    \cup { Triple(Status200, h, BodyHello) : h \in HeaderLists }
    \cup { Triple(Status200, HeadersCL, b) : b \in Bodies }
    \cup { Callable }

\* a response with a list body, one with a body that has close(), a callable
PlainResults ==
    { Triple(Status200, HeadersCL, BodyHello), Triple(Status200, HeadersCL, IterHello),
      Callable }

(* ------------------------------------------------------------------ *)
(* handlers.py: the response validator and the header block            *)
(* ------------------------------------------------------------------ *)

\* The checks finish_response makes on self.result, in its order.  The
\* outcome is "ok", the name of the exception raised, or "pdb": the status
\* has no space after the code and finish_response calls pdb.set_trace()
\* before it raises.
HeaderCheck(h) ==
    IF ~IsBytes(h.name) THEN "AssertionError"
    ELSE IF ~IsBytes(h.val) THEN "AssertionError"
    ELSE IF is_hop_by_hop(h.name) THEN "AssertionError"
    ELSE "ok"

HeadersCheck(headers) ==
    IF \A i \in 1..Len(headers.items) : HeaderCheck(headers.items[i]) = "ok"
    THEN "ok" ELSE "AssertionError"

StatusCheck(status) ==
    IF ~IsBytes(status) THEN "AssertionError"
    ELSE IF ~(Len(status.chars) >= 4) THEN "AssertionError"
    ELSE IF ~PyInt(Slice(status.chars, 0, 3)).ok THEN "ValueError"
    ELSE IF PyInt(Slice(status.chars, 0, 3)).val = 0 THEN "AssertionError"
    ELSE IF Slice(status.chars, 3, 4) # <<" ">> THEN "pdb"
    ELSE "ok"

\* (Validate_UnpackFirst: `status, headers, body = self.result` before the
\* test for a callable, which fails with a TypeError on a callable)
Validate_UnpackFirst(res) ==
    IF res.kind = "callable" THEN "TypeError"
    ELSE IF StatusCheck(res.status) # "ok" THEN StatusCheck(res.status)
    ELSE HeadersCheck(res.headers)

Validate(res) ==
    IF res.kind = "callable" THEN "AssertionError"
    ELSE IF StatusCheck(res.status) # "ok" THEN StatusCheck(res.status)
    ELSE HeadersCheck(res.headers)

\* has_header(name) over self.headers
\* (has_header_exact: the comparison without lower())
has_header_exact(hdrs, name) ==
    \E i \in 1..Len(hdrs.items) : hdrs.items[i].name.chars = name
has_header(hdrs, name) ==
    \E i \in 1..Len(hdrs.items) : Lower(hdrs.items[i].name.chars) = Lower(name)

\* client_is_modern(); the caller has checked that SERVER_PROTOCOL is there
\* (client_is_modern_exact: the comparison without upper())
client_is_modern_exact(env) ==
    env.map["SERVER_PROTOCOL"].chars # <<"H","T","T","P","/","0",".","9">>
client_is_modern(env) ==
    Upper(env.map["SERVER_PROTOCOL"].chars) # <<"H","T","T","P","/","0",".","9">>

\* the byte strings send_preamble() hands to _write, in order
send_preamble(origin, env, st, hdrs, software, now) ==
    IF origin
    THEN IF client_is_modern(env)
         THEN << Bytes(<<"H","T","T","P","/">> \o http_version.chars \o <<" ">>
                       \o st.chars \o CRLF) >>
              \o (IF ~has_header(hdrs, <<"D","a","t","e">>)
                  THEN << Bytes(<<"D","a","t","e",":"," ">> \o format_date_time(now) \o CRLF) >>
                  ELSE << >>)
              \o (IF Truthy(software) /\ ~has_header(hdrs, <<"S","e","r","v","e","r">>)
                  THEN << Bytes(<<"S","e","r","v","e","r",":"," ">> \o software.chars \o CRLF) >>
                  ELSE << >>)
         ELSE << >>
    ELSE << Bytes(<<"S","t","a","t","u","s",":"," ">> \o st.chars \o CRLF) >>

\* k + b': ' + v + CRLF
HeaderLine(h) == Bytes(h.name.chars \o <<":", " ">> \o h.val.chars \o CRLF)

\* the loop of send_headers over self.headers
\* (HeaderLines_Reversed: the loop walking the list backwards)
HeaderLines_Reversed(hdrs) ==
    [i \in 1..Len(hdrs.items) |-> HeaderLine(hdrs.items[Len(hdrs.items) + 1 - i])]
HeaderLines(hdrs) == [i \in 1..Len(hdrs.items) |-> HeaderLine(hdrs.items[i])]

\* everything send_headers() hands to _write, in order, when nothing fails
HeaderBlock(origin, env, st, hdrs, software, now) ==
    IF ~origin \/ client_is_modern(env)
    THEN send_preamble(origin, env, st, hdrs, software, now)
         \o HeaderLines(hdrs) \o << Bytes(CRLF) >>
    ELSE << >>

(* ------------------------------------------------------------------ *)
(* State                                                               *)
(* ------------------------------------------------------------------ *)
VARIABLES
    \* the handler as constructed
    origin_server, server_software, base_env,
    \* BaseHandler's per-request attributes
    result, status, headers, body, environ, bytes_sent, headers_sent,
    \* the streams: what stdout.write received; what print_exception wrote
    \* to stderr and how much of it stderr.flush() has pushed out
    out, errlog, err_flushed,
    \* where run() is: the statement to execute next, whether it is inside
    \* the except clause of run(), the exception in flight, how many chunks
    \* the loop over the body has consumed, how run() ended
    pc, phase, exc, next_chunk, outcome,
    \* history: what the application did, the exception handle_error() was
    \* called for and the state it found, the exception the inner except
    \* clause caught, how often things happened
    app_result, primary, secondary, err_out_len, err_headers_sent,
    handle_error_calls, fallback_runs, body_closes, close_calls,
    \* the dict object BaseHandler.os_environ, which all handlers share, and
    \* the dict object self.environ is bound to ("request": one of its own)
    os_environ_obj, environ_is,
    \* what the application's calls of shift_path_info(environ) returned, in
    \* order, and what its call of application_uri(environ) returned
    shifted, uri,
    \* the calls of write(data) made from outside of finish_response's loop,
    \* in order: the data and the exception the caller got
    direct,
    \* how the earlier run() calls on this handler ended
    previous,
    \* a second handler instance: its state while the other one is running,
    \* and which of the two is running
    peer, focus

config == <<origin_server, server_software, base_env>>
attrs == <<result, status, headers, body, environ, bytes_sent, headers_sent>>
streams == <<out, errlog, err_flushed>>
control == <<pc, phase, exc, next_chunk, outcome>>
history == <<app_result, primary, secondary, err_out_len, err_headers_sent,
             handle_error_calls, fallback_runs, body_closes, close_calls>>
calls == <<shifted, uri, direct>>
others == <<previous, peer, focus>>
\* what only setup_environ, the application and the callers of run() touch
frame == <<os_environ_obj, environ_is, calls, others>>
vars == <<config, attrs, streams, control, history, os_environ_obj, environ_is,
          calls, others>>

\* SimpleHandler(stdin, stdout, stderr, environ), before run(), for an
\* environ out of `envs`
Start(envs) ==
    /\ origin_server \in BOOLEAN
    /\ server_software \in ServerSoftwares
    /\ base_env \in envs
    /\ result = None /\ status = None /\ headers = None /\ body = None
    /\ environ = None /\ bytes_sent = 0 /\ headers_sent = FALSE
    /\ out = << >> /\ errlog = << >> /\ err_flushed = 0
    /\ pc = "setup_environ" /\ phase = "try" /\ exc = "none" /\ next_chunk = 0
    /\ outcome = "running"
    /\ app_result = None /\ primary = "none" /\ secondary = "none"
    /\ err_out_len = 0 /\ err_headers_sent = FALSE
    /\ handle_error_calls = 0 /\ fallback_runs = 0
    /\ body_closes = 0 /\ close_calls = 0
    /\ os_environ_obj = os_environ /\ environ_is = "none"
    /\ shifted = << >> /\ uri = None /\ direct = << >>
    /\ previous = << >> /\ focus = 1

\* one handler, no other instance
Init == Start(BaseEnvs) /\ peer = None

\* An exception e leaves the statement at pc.  In the try block of run() it
\* is caught by the outer except clause, which calls handle_error(); inside
\* that clause it is caught by the inner one, which closes and re-raises.
Throw(e) ==
    /\ exc' = e
    /\ IF phase = "try"
       THEN pc' = "handle_error" /\ phase' = "except"
       ELSE pc' = "give_up" /\ phase' = phase

\* finish_response() or handle_error() returns, and with it run()
Return ==
    /\ pc' = "done" /\ outcome' = "returned"
    /\ UNCHANGED <<phase, exc>>

(* ------------------------------------------------------------------ *)
(* run(): setup_environ and the application call                       *)
(* ------------------------------------------------------------------ *)
Bool(b) == [kind |-> "bool", val |-> b]

\* SimpleHandler.__init__ defaults, as simple_server constructs it
web3_multithread == TRUE
web3_multiprocess == FALSE

\* self.os_environ.copy() followed by add_cgi_vars()
CopiedEnv(os_env, cgi) == Update(os_env, cgi)

\* the keys setup_environ sets before it reads env['SCRIPT_NAME']
EnvBeforeScriptName(os_env, cgi) ==
    LET e0 == CopiedEnv(os_env, cgi)
        e1 == Update(e0, Dict(
                ("web3.version" :> web3_version)
                @@ ("web3.url_scheme" :> guess_scheme(e0))
                @@ ("web3.input" :> Stream("stdin"))
                @@ ("web3.errors" :> Stream("stderr"))
                @@ ("web3.multithread" :> Bool(web3_multithread))
                @@ ("web3.run_once" :> Bool(web3_run_once))
                @@ ("web3.multiprocess" :> Bool(web3_multiprocess))))
    IN  IF "RAW_PATH_INFO" \in DOMAIN e1.map
        THEN SetItem(e1, "web3.path_info", e1.map["RAW_PATH_INFO"])
        ELSE e1

\* the rest of setup_environ, when SCRIPT_NAME is there
EnvComplete(e, origin, software) ==
    LET e2 == SetItem(SetItem(e, "web3.script_name", e.map["SCRIPT_NAME"]),
                      "web3.async", Bool(web3_async))
    IN  IF origin /\ Truthy(software) /\ "SERVER_SOFTWARE" \notin DOMAIN e2.map
        THEN SetItem(e2, "SERVER_SOFTWARE", software)
        ELSE e2

\* env = self.environ = self.os_environ.copy(): the dict object self.environ
\* is bound to is a new one, which the request owns
\* (os_environ_shared: the binding without copy(), to the shared object;
\* base_env_adopted: the binding to the transport's mapping, filled in place)
os_environ_shared == "os_environ"
base_env_adopted == "base_env"
os_environ_copy == "request"

\* The content of the dict object `obj` after item assignments through
\* self.environ have made the content of the object it is bound to `new`.
Written(obj, content, bound_to, new) == IF bound_to = obj THEN new ELSE content

setup_environ ==
    /\ pc = "setup_environ"
    /\ environ_is' = os_environ_copy
    /\ LET e == EnvBeforeScriptName(os_environ_obj, base_env)
       IN  IF "SCRIPT_NAME" \in DOMAIN e.map
           THEN /\ environ' = EnvComplete(e, origin_server, server_software)
                /\ pc' = "application"
                /\ UNCHANGED <<phase, exc>>
           ELSE /\ environ' = e
                /\ Throw("KeyError")
    /\ os_environ_obj' = Written("os_environ", os_environ_obj, environ_is', environ')
    /\ base_env' = Written("base_env", base_env, environ_is', environ')
    /\ UNCHANGED <<origin_server, server_software, result, status, headers, body,
                   bytes_sent, headers_sent, streams, next_chunk, outcome, history,
                   calls, others>>

\* self.result = application(self.environ): the application returns a
\* response (or a callable), or raises
ApplicationReturnsOneOf(results) ==
    /\ pc = "application"
    /\ \E r \in results : result' = r /\ app_result' = r
    /\ pc' = "finish_response"
    /\ UNCHANGED <<config, frame, status, headers, body, environ, bytes_sent, headers_sent,
                   streams, phase, exc, next_chunk, outcome,
                   primary, secondary, err_out_len, err_headers_sent,
                   handle_error_calls, fallback_runs, body_closes, close_calls>>

ApplicationReturns == ApplicationReturnsOneOf(AppResults)

\* the application of the requests whose environ is looked at returns one
\* of three things
ApplicationReturnsPlain == ApplicationReturnsOneOf(PlainResults)

ApplicationRaises ==
    /\ pc = "application"
    /\ app_result' = [kind |-> "raised"]
    /\ Throw("AppError")
    /\ UNCHANGED <<config, frame, attrs, streams, next_chunk, outcome,
                   primary, secondary, err_out_len, err_headers_sent,
                   handle_error_calls, fallback_runs, body_closes, close_calls>>

\* The application, before it returns, calls shift_path_info(environ).
\* What the call returns is noted together with SCRIPT_NAME and PATH_INFO
\* as it leaves them; an exception it raises leaves the application.
application_shifts ==
    /\ pc = "application"
    /\ Len(shifted) < MaxShifts
    /\ LET r == shift_path_info(environ)
       IN  /\ environ' = r.environ
           /\ IF r.raised = "none"
              THEN /\ shifted' = Append(shifted,
                                        [ret |-> r.ret,
                                         script_name |-> Get(r.environ, "SCRIPT_NAME"),
                                         path_info |-> Get(r.environ, "PATH_INFO")])
                   /\ UNCHANGED <<pc, phase, exc, app_result>>
              ELSE /\ shifted' = shifted
                   /\ app_result' = [kind |-> "raised"]
                   /\ Throw(r.raised)
    /\ os_environ_obj' = Written("os_environ", os_environ_obj, environ_is, environ')
    /\ base_env' = Written("base_env", base_env, environ_is, environ')
    /\ UNCHANGED <<origin_server, server_software, result, status, headers, body,
                   bytes_sent, headers_sent, streams, next_chunk, outcome,
                   primary, secondary, err_out_len, err_headers_sent,
                   handle_error_calls, fallback_runs, body_closes, close_calls,
                   environ_is, uri, direct, others>>

\* The application, before it returns, calls application_uri(environ); an
\* exception it raises leaves the application.
application_asks_uri ==
    /\ pc = "application"
    /\ uri = None
    /\ uri' = application_uri(environ)
    /\ IF uri'.kind = "raised"
       THEN /\ app_result' = [kind |-> "raised"]
            /\ Throw(uri'.exc)
       ELSE UNCHANGED <<pc, phase, exc, app_result>>
    /\ UNCHANGED <<config, attrs, streams, next_chunk, outcome,
                   primary, secondary, err_out_len, err_headers_sent,
                   handle_error_calls, fallback_runs, body_closes, close_calls,
                   os_environ_obj, environ_is, shifted, direct, others>>

(* ------------------------------------------------------------------ *)
(* finish_response(): validation                                       *)
(* ------------------------------------------------------------------ *)
\* the checks pass: the response becomes the handler's current response
ValidateOk ==
    /\ pc = "finish_response"
    /\ Validate(result) = "ok"
    /\ status' = result.status
    /\ headers' = result.headers
    /\ body' = result.body
    /\ pc' = "send_headers"
    /\ UNCHANGED <<config, frame, result, environ, bytes_sent, headers_sent, streams,
                   phase, exc, next_chunk, outcome, history>>

\* a check raises
ValidateFails ==
    /\ pc = "finish_response"
    /\ Validate(result) \notin {"ok", "pdb"}
    /\ Throw(Validate(result))
    /\ UNCHANGED <<config, frame, attrs, streams, next_chunk, outcome, history>>

\* the status has no space after the code: pdb.set_trace() stops the
\* handler in the debugger
ValidateEntersPdb ==
    /\ pc = "finish_response"
    /\ Validate(result) = "pdb"
    /\ pc' = "pdb"
    /\ UNCHANGED <<config, frame, attrs, streams, phase, exc, next_chunk, outcome, history>>

\* whoever sits at the debugger lets the handler continue, and the
\* AssertionError is raised, or quits the debugger, which raises BdbQuit
PdbResumes ==
    /\ pc = "pdb"
    /\ \E e \in {"AssertionError", "BdbQuit"} : Throw(e)
    /\ UNCHANGED <<config, frame, attrs, streams, next_chunk, outcome, history>>

(* ------------------------------------------------------------------ *)
(* finish_response(): transmission                                     *)
(* ------------------------------------------------------------------ *)
\* self.environ['SERVER_PROTOCOL'] in client_is_modern(): after close() the
\* environ is None and subscripting it is a TypeError; a mapping without the
\* key raises KeyError
ProtocolLookup(env) ==
    IF env = None THEN "TypeError"
    ELSE IF "SERVER_PROTOCOL" \notin DOMAIN env.map THEN "KeyError"
    ELSE "ok"

\* send_headers(): the flag is set first; the block is then written line by
\* line.  An origin server asks client_is_modern(), which can raise; the
\* transport can fail at any _write, after the k lines it has accepted.
send_headers ==
    /\ pc = "send_headers"
    /\ headers_sent' = TRUE
    /\ IF origin_server /\ ProtocolLookup(environ) # "ok"
       THEN /\ out' = out
            /\ next_chunk' = next_chunk
            /\ Throw(ProtocolLookup(environ))
       ELSE \E now \in Timestamps :
              LET block == HeaderBlock(origin_server, environ, status, headers,
                                       server_software, now)
              IN  \E k \in 0..Len(block) :
                    /\ out' = out \o SubSeq(block, 1, k)
                    /\ IF k = Len(block)
                       THEN /\ pc' = "write"
                            /\ next_chunk' = 0
                            /\ UNCHANGED <<phase, exc>>
                       ELSE /\ next_chunk' = next_chunk
                            /\ Throw("IOError")
    /\ UNCHANGED <<config, frame, result, status, headers, body, environ, bytes_sent,
                   errlog, err_flushed, outcome, history>>

\* self.bytes_sent += len(data)
\* (Counted_PerChunk: counting chunks instead of bytes)
Counted_PerChunk(n, data) == n + 1
Counted(n, data) == n + Len(data.chars)

\* write()'s two checks: `if not self.status`, `elif not self.headers_sent`
\* (write_checks_status: write() without its elif)
write_checks_status == ~Truthy(status)
write_asserts == ~Truthy(status) \/ ~headers_sent

\* for data in body: self.write(data) -- one chunk.  write() asserts, counts,
\* then calls _write and _flush, either of which can fail.
write ==
    /\ pc = "write"
    /\ next_chunk < Len(body.chunks)
    /\ LET data == body.chunks[next_chunk + 1]
       IN  IF write_asserts
           THEN /\ UNCHANGED <<bytes_sent, out, next_chunk>>
                /\ Throw("AssertionError")
           ELSE /\ bytes_sent' = Counted(bytes_sent, data)
                /\ \E io \in {"ok", "write_fails", "flush_fails"} :
                     /\ out' = IF io = "write_fails" THEN out ELSE Append(out, data)
                     /\ IF io = "ok"
                        THEN /\ next_chunk' = next_chunk + 1
                             /\ UNCHANGED <<pc, phase, exc>>
                        ELSE /\ next_chunk' = next_chunk
                             /\ Throw("IOError")
    /\ UNCHANGED <<config, frame, result, status, headers, body, environ, headers_sent,
                   errlog, err_flushed, outcome, history>>

\* handler.write(data) called by someone other than finish_response's loop,
\* at any point of the handler's life.  The exception, of the checks or of
\* the transport, goes to that caller; run() is where it was.
direct_write ==
    /\ Len(direct) < MaxDirect
    /\ \E data \in Chunks :
         IF write_asserts
         THEN /\ direct' = Append(direct, [data |-> data, raised |-> "AssertionError"])
              /\ UNCHANGED <<bytes_sent, out>>
         ELSE /\ bytes_sent' = Counted(bytes_sent, data)
              /\ \E io \in {"ok", "write_fails", "flush_fails"} :
                   /\ out' = IF io = "write_fails" THEN out ELSE Append(out, data)
                   /\ direct' = Append(direct,
                                       [data |-> data,
                                        raised |-> IF io = "ok" THEN "none" ELSE "IOError"])
    /\ UNCHANGED <<config, result, status, headers, body, environ, headers_sent,
                   errlog, err_flushed, control, history, os_environ_obj, environ_is,
                   shifted, uri, others>>

\* the body's iterator raises instead of yielding (a list never does)
BodyRaises ==
    /\ pc = "write"
    /\ body.kind = "iterator"
    /\ Throw("BodyError")
    /\ UNCHANGED <<config, frame, attrs, streams, next_chunk, outcome, history>>

\* close(): body.close() if there is one, and in the finally clause the
\* reset of the per-request attributes
CloseRaises == HasClose(body) /\ body.close_raises

\* (close_without_finally: the reset as plain statements after body.close(),
\* which an exception of body.close() skips;
\* close_keeps_headers_sent: the reset without its last statement)
close_keeps_headers_sent ==
    /\ close_calls' = close_calls + 1
    /\ body_closes' = IF HasClose(body) THEN body_closes + 1 ELSE body_closes
    /\ result' = None /\ body' = None /\ headers' = None /\ status' = None
    /\ environ' = None
    /\ bytes_sent' = 0 /\ headers_sent' = headers_sent

close_without_finally ==
    /\ close_calls' = close_calls + 1
    /\ body_closes' = IF HasClose(body) THEN body_closes + 1 ELSE body_closes
    /\ IF CloseRaises
       THEN UNCHANGED attrs
       ELSE /\ result' = None /\ body' = None /\ headers' = None /\ status' = None
            /\ environ' = None
            /\ bytes_sent' = 0 /\ headers_sent' = FALSE

close ==
    /\ close_calls' = close_calls + 1
    /\ body_closes' = IF HasClose(body) THEN body_closes + 1 ELSE body_closes
    /\ result' = None /\ body' = None /\ headers' = None /\ status' = None
    /\ environ' = None
    /\ bytes_sent' = 0 /\ headers_sent' = FALSE

\* the body is exhausted: finish_response() ends with self.close()
FinishClose ==
    /\ pc = "write"
    /\ next_chunk = Len(body.chunks)
    /\ close
    /\ IF CloseRaises THEN Throw("CloseError") /\ outcome' = outcome ELSE Return
    /\ UNCHANGED <<config, frame, streams, next_chunk, app_result, primary, secondary,
                   err_out_len, err_headers_sent, handle_error_calls, fallback_runs>>

(* ------------------------------------------------------------------ *)
(* The except clauses of run()                                         *)
(* ------------------------------------------------------------------ *)
\* handle_error(): log_exception() prints the traceback to stderr and
\* flushes it, either of which can fail; then, if no headers were sent, the
\* error output becomes the result and finish_response() runs on it;
\* otherwise handle_error() just returns.
\* if not self.headers_sent
\* (SendsErrorOutput_IfNothingWritten: a test on the bytes written instead)
SendsErrorOutput_IfNothingWritten == out = << >>
SendsErrorOutput == ~headers_sent

handle_error ==
    /\ pc = "handle_error"
    /\ primary' = exc
    /\ err_out_len' = Len(out)
    /\ err_headers_sent' = headers_sent
    /\ handle_error_calls' = handle_error_calls + 1
    /\ \E log \in {"ok", "print_fails", "flush_fails"} :
         /\ errlog' = IF log = "print_fails" THEN errlog ELSE Append(errlog, exc)
         /\ err_flushed' = IF log = "ok" THEN Len(errlog) + 1 ELSE err_flushed
         /\ IF log # "ok"
            THEN /\ Throw("LogError")
                 /\ UNCHANGED <<result, outcome, fallback_runs>>
            ELSE IF SendsErrorOutput
            THEN /\ result' = error_output(environ)
                 /\ fallback_runs' = fallback_runs + 1
                 /\ pc' = "finish_response"
                 /\ UNCHANGED <<phase, exc, outcome>>
            ELSE /\ Return
                 /\ UNCHANGED <<result, fallback_runs>>
    /\ UNCHANGED <<config, frame, status, headers, body, environ, bytes_sent, headers_sent,
                   out, next_chunk, app_result, secondary, body_closes, close_calls>>

\* "If we get an error handling an error, just give up already!":
\* self.close(), then raise; an exception of close() takes the place of the
\* one that was being handled
give_up ==
    /\ pc = "give_up"
    /\ close
    /\ secondary' = exc
    /\ exc' = IF CloseRaises THEN "CloseError" ELSE exc
    /\ pc' = "done"
    /\ outcome' = "raised"
    /\ UNCHANGED <<config, frame, streams, phase, next_chunk, app_result, primary,
                   err_out_len, err_headers_sent, handle_error_calls, fallback_runs>>

(* ------------------------------------------------------------------ *)
(* Specifications                                                      *)
(* ------------------------------------------------------------------ *)
Next ==
    \/ setup_environ
    \/ ApplicationReturns
    \/ ApplicationRaises
    \/ ValidateOk
    \/ ValidateFails
    \/ ValidateEntersPdb
    \/ PdbResumes
    \/ send_headers
    \/ write
    \/ BodyRaises
    \/ FinishClose
    \/ handle_error
    \/ give_up

Spec == Init /\ [][Next]_vars

\* Every statement of run() is eventually executed once it is reached; only
\* the debugger waits for somebody outside the program.
HandlerStep ==
    \/ setup_environ \/ ApplicationReturns \/ ApplicationRaises
    \/ ValidateOk \/ ValidateFails \/ ValidateEntersPdb
    \/ send_headers \/ write \/ BodyRaises \/ FinishClose
    \/ handle_error \/ give_up

FairSpec == Spec /\ WF_vars(HandlerStep)

(* ------------------------------------------------------------------ *)
(* Applications that use util.py on their environ                      *)
(* ------------------------------------------------------------------ *)
\* a handler with the class defaults of BaseHandler
UtilInit == Start(UtilEnvs) /\ origin_server /\ server_software = None /\ peer = None

UtilNext ==
    \/ setup_environ
    \/ application_shifts
    \/ application_asks_uri

UtilSpec == UtilInit /\ [][UtilNext]_vars

(* ------------------------------------------------------------------ *)
(* A handler that is used for more than one request                    *)
(* ------------------------------------------------------------------ *)
\* run() has transmitted a response, the application's or the error output,
\* and has returned
Transmitted ==
    /\ pc = "done" /\ outcome = "returned"
    /\ handle_error_calls = 0 \/ fallback_runs = 1

\* run(application) is called again on the handler, after the run() before
\* has transmitted its response.  The caller has taken what stdout and stderr
\* received, so `out` and `errlog` hold what the new run() writes; run()'s own
\* position and the record of what happened start anew; the handler's
\* attributes are as the run() before has left them.
run_again ==
    /\ Transmitted
    /\ Len(previous) + 1 < MaxRuns
    /\ previous' = Append(previous, [outcome |-> outcome, shifts |-> Len(shifted)])
    /\ pc' = "setup_environ" /\ phase' = "try" /\ exc' = "none" /\ next_chunk' = 0
    /\ outcome' = "running"
    /\ out' = << >> /\ errlog' = << >> /\ err_flushed' = 0
    /\ app_result' = None /\ primary' = "none" /\ secondary' = "none"
    /\ err_out_len' = 0 /\ err_headers_sent' = FALSE
    /\ handle_error_calls' = 0 /\ fallback_runs' = 0
    /\ body_closes' = 0 /\ close_calls' = 0
    /\ shifted' = << >> /\ uri' = None /\ direct' = << >>
    /\ UNCHANGED <<config, attrs, os_environ_obj, environ_is, peer, focus>>

ReuseNext ==
    \/ Next
    \/ run_again

ReuseSpec == Init /\ [][ReuseNext]_vars

(* ------------------------------------------------------------------ *)
(* Requests whose application changes its environ                      *)
(* ------------------------------------------------------------------ *)
\* run() for an application that calls shift_path_info on its environ any
\* number of times before it returns or raises
PlainNext ==
    \/ setup_environ
    \/ application_shifts
    \/ ApplicationReturnsPlain
    \/ ApplicationRaises
    \/ ValidateOk
    \/ ValidateFails
    \/ send_headers
    \/ write
    \/ BodyRaises
    \/ FinishClose
    \/ handle_error
    \/ give_up

EnvInit == Start(BaseEnvs \cup { PathEnv(<<"/","a","/","b">>, << >>) }) /\ peer = None

EnvNext ==
    \/ PlainNext
    \/ run_again

EnvSpec == EnvInit /\ [][EnvNext]_vars

(* ------------------------------------------------------------------ *)
(* Two handler instances                                               *)
(* ------------------------------------------------------------------ *)
\* the application of these requests returns demo_app's kind of response
DemoResults == { Triple(Status200, HeadersCL, BodyHello) }
ApplicationReturnsDemo == ApplicationReturnsOneOf(DemoResults)

\* What belongs to one handler instance: what it was constructed with, its
\* attributes, its streams, where its run() is and what has happened in it.
Instance ==
    [origin_server |-> origin_server,
     server_software |-> server_software, base_env |-> base_env,
     result |-> result, status |-> status, headers |-> headers,
     body |-> body, environ |-> environ, bytes_sent |-> bytes_sent,
     headers_sent |-> headers_sent, out |-> out, errlog |-> errlog,
     err_flushed |-> err_flushed, pc |-> pc, phase |-> phase,
     exc |-> exc, next_chunk |-> next_chunk, outcome |-> outcome,
     app_result |-> app_result, primary |-> primary,
     secondary |-> secondary, err_out_len |-> err_out_len,
     err_headers_sent |-> err_headers_sent,
     handle_error_calls |-> handle_error_calls,
     fallback_runs |-> fallback_runs, body_closes |-> body_closes,
     close_calls |-> close_calls, environ_is |-> environ_is,
     shifted |-> shifted, uri |-> uri, direct |-> direct,
     previous |-> previous]

\* a handler instance as SimpleHandler(stdin, stdout, stderr, env) makes it
Fresh(origin, software, env) ==
    [origin_server |-> origin, server_software |-> software,
     base_env |-> env, result |-> None, status |-> None,
     headers |-> None, body |-> None, environ |-> None, bytes_sent |-> 0,
     headers_sent |-> FALSE, out |-> << >>, errlog |-> << >>,
     err_flushed |-> 0, pc |-> "setup_environ", phase |-> "try",
     exc |-> "none", next_chunk |-> 0, outcome |-> "running",
     app_result |-> None, primary |-> "none", secondary |-> "none",
     err_out_len |-> 0, err_headers_sent |-> FALSE,
     handle_error_calls |-> 0, fallback_runs |-> 0, body_closes |-> 0,
     close_calls |-> 0, environ_is |-> "none", shifted |-> << >>,
     uri |-> None, direct |-> << >>, previous |-> << >>]

\* a CGI-style handler for PATH_INFO "/a/b", and an origin server whose
\* client speaks HTTP/0.9
PairHandlers ==
    { Fresh(FALSE, None, PathEnv(<<"/","a","/","b">>, << >>)),
      Fresh(TRUE, None, FullEnv(HTTP09)) }

\* Web3RequestHandler.handle makes one SimpleHandler per request: two
\* requests, two instances.  The one that is not running waits in `peer`.
PairInit ==
    /\ \E h \in PairHandlers :
         Start({h.base_env}) /\ origin_server = h.origin_server
         /\ server_software = h.server_software
    /\ peer \in PairHandlers

\* the other instance goes on from here.  Both are bound to the one dict
\* object os_environ; everything else is the instance's own.
switch ==
    /\ peer # None
    /\ peer' = Instance
    /\ focus' = 3 - focus
    /\ origin_server' = peer.origin_server
    /\ server_software' = peer.server_software
    /\ base_env' = peer.base_env
    /\ result' = peer.result
    /\ status' = peer.status
    /\ headers' = peer.headers
    /\ body' = peer.body
    /\ environ' = IF peer.environ_is = "os_environ" /\ peer.environ # None
                  THEN os_environ_obj ELSE peer.environ
    /\ bytes_sent' = peer.bytes_sent
    /\ headers_sent' = peer.headers_sent
    /\ out' = peer.out
    /\ errlog' = peer.errlog
    /\ err_flushed' = peer.err_flushed
    /\ pc' = peer.pc
    /\ phase' = peer.phase
    /\ exc' = peer.exc
    /\ next_chunk' = peer.next_chunk
    /\ outcome' = peer.outcome
    /\ app_result' = peer.app_result
    /\ primary' = peer.primary
    /\ secondary' = peer.secondary
    /\ err_out_len' = peer.err_out_len
    /\ err_headers_sent' = peer.err_headers_sent
    /\ handle_error_calls' = peer.handle_error_calls
    /\ fallback_runs' = peer.fallback_runs
    /\ body_closes' = peer.body_closes
    /\ close_calls' = peer.close_calls
    /\ environ_is' = peer.environ_is
    /\ shifted' = peer.shifted
    /\ uri' = peer.uri
    /\ direct' = peer.direct
    /\ previous' = peer.previous
    /\ UNCHANGED os_environ_obj

PairNext ==
    \/ setup_environ
    \/ application_shifts
    \/ ApplicationReturnsDemo
    \/ ApplicationRaises
    \/ ValidateOk
    \/ send_headers
    \/ write
    \/ FinishClose
    \/ handle_error
    \/ give_up
    \/ switch

PairSpec == PairInit /\ [][PairNext]_vars

(* ------------------------------------------------------------------ *)
(* write() called from outside                                         *)
(* ------------------------------------------------------------------ *)
\* run() as before, and between any two of its steps, before it and after
\* it, a call of the handler's write()
DirectNext ==
    \/ PlainNext
    \/ direct_write

DirectSpec == Init /\ [][DirectNext]_vars

(* ------------------------------------------------------------------ *)
(* Properties                                                          *)
(* ------------------------------------------------------------------ *)
IsPrefix(a, b) == Len(a) <= Len(b) /\ SubSeq(b, 1, Len(a)) = a

\* the environ of this request, as far as client_is_modern() reads it
RequestEnv == EnvBeforeScriptName(os_environ, base_env)

\* the header block is left out: an origin server talking to HTTP/0.9
HasProtocol == "SERVER_PROTOCOL" \in DOMAIN RequestEnv.map
Suppressed == origin_server /\ HasProtocol /\ ~client_is_modern(RequestEnv)

\* close() has reset the per-request attributes
IsReset ==
    /\ result = None /\ status = None /\ headers = None /\ body = None
    /\ environ = None /\ bytes_sent = 0 /\ headers_sent = FALSE

\* what the transport receives for the error output when nothing fails
FallbackWrites(now) ==
    HeaderBlock(origin_server, RequestEnv, error_status, error_headers,
                server_software, now) \o error_body.chunks

AppRaised == app_result.kind = "raised"

\* C1: when the application raises, the failure is logged to stderr and
\* flushed before anything is written to the transport, the transport
\* receives nothing but the error output (status, headers and body,
\* transmitted as finish_response transmits any response), and when run()
\* returns the transport has received all of it.
C1_FallbackAfterAppRaises ==
    AppRaised =>
      /\ handle_error_calls > 0 /\ out # << >> =>
           errlog = <<"AppError">> /\ err_flushed = 1
      /\ HasProtocol \/ ~origin_server =>
           \E now \in Timestamps : IsPrefix(out, FallbackWrites(now))
      /\ pc = "done" /\ outcome = "returned" =>
           /\ errlog = <<"AppError">> /\ err_flushed = 1
           /\ fallback_runs = 1
           /\ \E now \in Timestamps : out = FallbackWrites(now)

C1_Witness ==
    /\ pc = "done" /\ outcome = "returned" /\ AppRaised
    /\ origin_server /\ ~Suppressed /\ server_software = None
    /\ Len(out) = 5
    /\ out[1] = Bytes(<<"H","T","T","P","/","1",".","0"," ">> \o error_status.chars \o CRLF)
    /\ out[5] = error_body.chunks[1]

\* C2: when handle_error() is called for a failure that happened with
\* headers-sent true, nothing more is written to the transport, and run()
\* ends with the handler closed and with that failure raised to its caller.
C2_ClosedAndReraisedAfterHeaders ==
    pc = "done" /\ handle_error_calls = 1 /\ err_headers_sent =>
      /\ fallback_runs = 0 /\ Len(out) = err_out_len
      /\ IsReset
      /\ outcome = "raised"

\* C3 as stated: a failure at a point where the transport has received
\* nothing is answered with the error output, when logging and transmission
\* succeed.
C3_FallbackWheneverNothingWritten ==
    pc = "done" /\ outcome = "returned" /\ handle_error_calls = 1 /\ err_out_len = 0 =>
      \E now \in Timestamps : out = FallbackWrites(now)

\* C3, amended: a failure handled while headers-sent is false is answered
\* with the error output, appended to what the transport already has, when
\* logging and transmission succeed; a failure handled while headers-sent is
\* true is answered with nothing, also when nothing has been written yet.
C3_FallbackIffHeadersNotSent ==
    /\ pc = "done" /\ outcome = "returned" /\ handle_error_calls = 1 /\ ~err_headers_sent =>
         /\ fallback_runs = 1
         /\ \E now \in Timestamps :
              out = SubSeq(out, 1, err_out_len) \o FallbackWrites(now)
    /\ handle_error_calls = 1 /\ err_headers_sent =>
         fallback_runs = 0 /\ Len(out) = err_out_len

\* a failure of the first _write of send_headers: nothing written, no fallback
C3_Witness ==
    /\ pc = "done" /\ outcome = "returned" /\ handle_error_calls = 1
    /\ err_headers_sent /\ err_out_len = 0 /\ out = << >>
    /\ primary = "IOError" /\ ~Suppressed

\* the application's response has a header whose name, in any letter case,
\* is one of the hop-by-hop names
HasHopByHop(res) ==
    /\ res.kind = "triple"
    /\ \E i \in 1..Len(res.headers.items) :
         /\ IsBytes(res.headers.items[i].name)
         /\ \E h \in _hoppish :
              /\ Len(h) = Len(res.headers.items[i].name.chars)
              /\ \A j \in 1..Len(h) :
                   res.headers.items[i].name.chars[j] \in {h[j], UpperChar(h[j])}

MalformedStatus(st) ==
    \/ Len(st.chars) < 4
    \/ ~(\A i \in 1..3 : st.chars[i] \in {"0","1","2","3","4","5","6","7","8","9"})
    \/ (\A i \in 1..3 : st.chars[i] = "0")
    \/ st.chars[4] # " "

\* C5: a response with a malformed status never passes validation: the
\* try block of run() does not get past finish_response's checks with it,
\* and the transport has received nothing when the failure is handled.
C5_MalformedStatusRejected ==
    app_result.kind = "triple" /\ IsBytes(app_result.status)
    /\ MalformedStatus(app_result.status) =>
      /\ phase = "try" => pc \in {"finish_response", "pdb"} /\ out = << >>
      /\ handle_error_calls > 0 => err_out_len = 0

\* a valid response: a status of three digits (not all zero), a space and
\* anything; headers of byte strings; no hop-by-hop name
ValidResponse(res) ==
    /\ res.kind = "triple"
    /\ IsBytes(res.status) /\ ~MalformedStatus(res.status)
    /\ \A i \in 1..Len(res.headers.items) :
         IsBytes(res.headers.items[i].name) /\ IsBytes(res.headers.items[i].val)
    /\ ~HasHopByHop(res)

\* run() has come to its end without any failure
CompletedCleanly == pc = "done" /\ outcome = "returned" /\ handle_error_calls = 0

\* the preamble lines, one line per header in input order, the blank line
ExpectedHeaderBlock(res, now) ==
    send_preamble(origin_server, RequestEnv, res.status, res.headers, server_software, now)
    \o [i \in 1..Len(res.headers.items) |->
          Bytes(res.headers.items[i].name.chars \o <<":", " ">>
                \o res.headers.items[i].val.chars \o <<"\r", "\n">>)]
    \o << Bytes(<<"\r", "\n">>) >>

\* C6 as stated: every valid response is written as preamble lines, header
\* lines, blank line, body chunks.
C6_AlwaysHeaderBlockThenBody ==
    CompletedCleanly /\ ValidResponse(app_result) /\ Len(app_result.body.chunks) > 0 =>
      \E now \in Timestamps :
        out = ExpectedHeaderBlock(app_result, now) \o app_result.body.chunks

\* C6, amended: the writes of a valid response transmitted without failure
\* are exactly preamble lines, header lines in input order, the blank line
\* and the body chunks in input order when the header block is not left out
\* (not an origin server, or a client that is not HTTP/0.9), and exactly the
\* body chunks when it is; while the transmission is under way the writes
\* are a prefix of that.
C6_ExactWrites ==
    ( ValidResponse(app_result) /\ (CompletedCleanly \/ phase = "try")
      /\ (HasProtocol \/ ~origin_server) ) =>
      \E now \in Timestamps :
        LET expected == (IF Suppressed THEN << >>
                         ELSE ExpectedHeaderBlock(app_result, now))
                        \o app_result.body.chunks
        IN  /\ IsPrefix(out, expected)
            /\ CompletedCleanly => out = expected

\* two headers and two chunks, sent by an origin server to HTTP/1.0
C6_Witness ==
    /\ CompletedCleanly /\ ValidResponse(app_result)
    /\ origin_server /\ ~Suppressed
    /\ Len(app_result.headers.items) = 2
    /\ app_result.headers.items[1] # app_result.headers.items[2]
    /\ Len(out) = 5
    /\ out[2] = HeaderLine(app_result.headers.items[1])

\* two chunks, sent without header block to HTTP/0.9
C6_WitnessSuppressed ==
    /\ CompletedCleanly /\ ValidResponse(app_result) /\ Suppressed
    /\ Len(app_result.body.chunks) = 2
    /\ out = app_result.body.chunks

\* C7 as stated: after a valid response has been transmitted, the counter
\* is the sum of the lengths of its chunks.
C7_CounterAfterRun ==
    CompletedCleanly /\ ValidResponse(app_result) =>
      bytes_sent = SumLen(app_result.body.chunks)

\* C7, amended: while a valid response is streamed the counter is the sum of
\* the lengths of the chunks handed to write() so far, so it is the sum over
\* the whole body when the last chunk has been written; the close() that ends
\* finish_response resets it, and it is 0 once run() has ended.
C7_CounterUntilClose ==
    /\ ValidResponse(app_result) /\ phase = "try" /\ pc = "write" =>
         /\ bytes_sent = SumLen(SubSeq(app_result.body.chunks, 1, next_chunk))
         /\ next_chunk = Len(app_result.body.chunks) =>
              bytes_sent = SumLen(app_result.body.chunks)
    /\ CompletedCleanly => bytes_sent = 0

\* body [b"Hello"]: the counter is 5 when the body is exhausted
C7_Witness ==
    /\ phase = "try" /\ pc = "write" /\ ValidResponse(app_result)
    /\ app_result.body.chunks = <<Hello>>
    /\ next_chunk = 1 /\ bytes_sent = 5

\* C8: when logging or the transmission of the error output fails, run()
\* ends with the handler closed (attributes reset) and with that very
\* failure raised to its caller.
C8_ClosedAndSameFailureRaised ==
    pc = "done" /\ secondary # "none" =>
      /\ IsReset
      /\ outcome = "raised"
      /\ exc = secondary

\* C9: run() comes to its end, handle_error() is entered at most once and the
\* error output is transmitted at most once.
C9_TerminatesWithOneRecovery ==
    /\ <>(pc = "done")
    /\ [](handle_error_calls <= 1 /\ fallback_runs <= 1)

\* C10: every call of close() calls the body's close() exactly when the body
\* has one, and leaves result, status, headers, body and environ None, the
\* counter 0 and headers-sent false, also when the body's close() raises.
C10_CloseReleasesAndResets ==
    [][ close_calls' = close_calls + 1 =>
          /\ body_closes' = body_closes + (IF HasClose(body) THEN 1 ELSE 0)
          /\ result' = None /\ status' = None /\ headers' = None /\ body' = None
          /\ environ' = None /\ bytes_sent' = 0 /\ headers_sent' = FALSE ]_vars

\* close() has just been left by the exception of the body's close(), after
\* a response of 5 bytes: the attributes are reset all the same
C10_Witness ==
    /\ pc = "handle_error" /\ exc = "CloseError"
    /\ close_calls = 1 /\ body_closes = 1
    /\ app_result.kind = "triple" /\ app_result.body.close_raises
    /\ Len(out) > 0
    /\ IsReset

C12_CallableRejected ==
    app_result = Callable =>
      /\ phase = "try" =>
           /\ pc = "finish_response" /\ out = << >>
           /\ status = None /\ headers = None /\ body = None /\ ~headers_sent
      /\ handle_error_calls > 0 =>
           primary = "AssertionError" /\ err_out_len = 0 /\ ~err_headers_sent
      /\ HasProtocol \/ ~origin_server =>
           \E now \in Timestamps : IsPrefix(out, FallbackWrites(now))

\* the callable has been rejected and answered with the error output
C12_Witness ==
    /\ app_result = Callable
    /\ pc = "done" /\ outcome = "returned"
    /\ primary = "AssertionError" /\ handle_error_calls = 1 /\ fallback_runs = 1
    /\ HasProtocol /\ out # << >>
    /\ \E now \in Timestamps : out = FallbackWrites(now)

\* the application's response has passed finish_response's checks
Accepted(res) == res.kind = "triple" /\ Validate(res) = "ok"

\* an origin server whose client's protocol is HTTP/0.9, in any letter case
LegacyOrigin ==
    /\ origin_server
    /\ RequestEnv.map["SERVER_PROTOCOL"].chars
         \in { <<h, t1, t2, p, "/", "0", ".", "9">> :
                 h \in {"H", "h"}, t1 \in {"T", "t"}, t2 \in {"T", "t"}, p \in {"P", "p"} }

\* C13: once send_headers has run for the application's response, the
\* transport has received, for an origin server with an HTTP/0.9 client,
\* nothing but the body chunks written so far; otherwise a status line
\* ("HTTP/1.0 <status>" or "Status: <status>"), up to two generated lines, one
\* line per header, a blank CRLF, and then the body chunks written so far.
\* So when run() ends without failure the HTTP/0.9 client of an origin
\* server has received the body chunks only.
C13_HeaderBlockUnlessLegacyOrigin ==
    ( Accepted(app_result) /\ (HasProtocol \/ ~origin_server)
      /\ ((pc = "write" /\ phase = "try") \/ CompletedCleanly) ) =>
      LET res == app_result
          n == IF CompletedCleanly THEN Len(res.body.chunks) ELSE next_chunk
          written == SubSeq(res.body.chunks, 1, n)
          nh == Len(res.headers.items)
      IN  IF LegacyOrigin
          THEN out = written
          ELSE \E k \in 1..3 :
                 /\ Len(out) = k + nh + 1 + n
                 /\ out[1] = IF origin_server
                             THEN Bytes(<<"H","T","T","P","/","1",".","0"," ">>
                                        \o res.status.chars \o <<"\r","\n">>)
                             ELSE Bytes(<<"S","t","a","t","u","s",":"," ">>
                                        \o res.status.chars \o <<"\r","\n">>)
                 /\ \A i \in 1..nh :
                      out[k + i] = Bytes(res.headers.items[i].name.chars \o <<":"," ">>
                                         \o res.headers.items[i].val.chars \o <<"\r","\n">>)
                 /\ out[k + nh + 1] = Bytes(<<"\r","\n">>)
                 /\ SubSeq(out, k + nh + 2, Len(out)) = written

\* an origin server, SERVER_PROTOCOL b'http/0.9', a body of two chunks: the
\* transport has received the two chunks and nothing else
C13_Witness ==
    /\ CompletedCleanly /\ Accepted(app_result)
    /\ origin_server /\ base_env = FullEnv(http09)
    /\ Len(app_result.body.chunks) = 2
    /\ out = app_result.body.chunks

\* the header list has a header of this name, whatever the letter case
Names(res, lowered) ==
    \E i \in 1..Len(res.headers.items) : Lower(res.headers.items[i].name.chars) = lowered

\* the Date lines of the two moments the model's clock shows
DateLines ==
    { Bytes(<<"D","a","t","e",":"," ">>
            \o <<"T","h","u",","," ","0","1"," ","J","a","n"," ","1","9","7","0"," ">>
            \o <<"0","0",":","0","0",":","0","0"," ","G","M","T","\r","\n">>),
      Bytes(<<"D","a","t","e",":"," ">>
            \o <<"F","r","i",","," ","0","2"," ","J","a","n"," ","1","9","7","0"," ">>
            \o <<"0","1",":","0","1",":","0","1"," ","G","M","T","\r","\n">>) }

\* C14: once send_headers has run for the application's response, what the
\* transport received before the header lines is: for a handler that is not
\* an origin server, the one line "Status: <status>"; for an origin server
\* with a modern client, the line "HTTP/1.0 <status>", then a Date line iff
\* no header is named Date in any letter case, then the line
\* "Server: <server_software>" iff server_software is set and no header is
\* named Server in any letter case.
C14_Preamble ==
    ( Accepted(app_result) /\ (HasProtocol \/ ~origin_server)
      /\ ((pc = "write" /\ phase = "try") \/ CompletedCleanly) ) =>
      LET res == app_result
          date == ~Names(res, <<"d","a","t","e">>)
          server == server_software # None /\ ~Names(res, <<"s","e","r","v","e","r">>)
          k == IF origin_server
               THEN 1 + (IF date THEN 1 ELSE 0) + (IF server THEN 1 ELSE 0)
               ELSE 1
          after == IF Len(res.headers.items) > 0
                   THEN Bytes(res.headers.items[1].name.chars \o <<":"," ">>
                              \o res.headers.items[1].val.chars \o <<"\r","\n">>)
                   ELSE Bytes(<<"\r","\n">>)
      IN  IF ~origin_server
          THEN /\ out[1] = Bytes(<<"S","t","a","t","u","s",":"," ">>
                                 \o res.status.chars \o <<"\r","\n">>)
               /\ out[2] = after
          ELSE ~LegacyOrigin =>
               /\ out[1] = Bytes(<<"H","T","T","P","/","1",".","0"," ">>
                                 \o res.status.chars \o <<"\r","\n">>)
               /\ date => out[2] \in DateLines
               /\ server => out[k] = Bytes(<<"S","e","r","v","e","r",":"," ">>
                                           \o server_software.chars \o <<"\r","\n">>)
               /\ out[k + 1] = after

\* an origin server with server_software set answers a response whose only
\* header is (b'date', ...): status line, Server line, no generated Date
C14_Witness ==
    /\ CompletedCleanly /\ Accepted(app_result)
    /\ origin_server /\ HasProtocol /\ ~LegacyOrigin /\ server_software # None
    /\ app_result.headers.items = <<DateHeader>>
    /\ out[2] = Bytes(<<"S","e","r","v","e","r",":"," ","W","3","\r","\n">>)
    /\ out[3] = HeaderLine(DateHeader)

\* "/s1/s2/.../sn"
RECURSIVE PathOf(_)
PathOf(segs) == IF Len(segs) = 0 THEN << >>
                ELSE <<"/">> \o Head(segs) \o PathOf(Tail(segs))

\* the request's SCRIPT_NAME and PATH_INFO as the transport supplied them
BaseScriptName == base_env.map["SCRIPT_NAME"].chars
BasePathInfo == base_env.map["PATH_INFO"].chars

SegmentLists(S) == UNION { [1..n -> S] : n \in 1..MaxSegments }

\* the segments that are left of s1 ... sk when every ".." has taken away
\* the segment before it
RECURSIVE Resolved(_, _)
Resolved(segs, kept) ==
    IF Len(segs) = 0 THEN kept
    ELSE IF Head(segs) = <<".", ".">>
    THEN Resolved(Tail(segs), IF Len(kept) = 0 THEN kept ELSE SubSeq(kept, 1, Len(kept) - 1))
    ELSE Resolved(Tail(segs), Append(kept, Head(segs)))

\* C15 as stated: for PATH_INFO /s1/.../sn of segments that are neither
\* empty nor ".", under an empty SCRIPT_NAME, the k-th call returns sk and
\* leaves SCRIPT_NAME /s1/.../sk, and the calls after the n-th return None.
C15_SegmentsInOrder ==
    \A segs \in SegmentLists(Segments \ { << >>, <<".">> }) :
      BaseScriptName = << >> /\ BasePathInfo = PathOf(segs) =>
        \A k \in 1..Len(shifted) :
          IF k <= Len(segs)
          THEN /\ shifted[k].ret = Bytes(segs[k])
               /\ shifted[k].script_name = Bytes(PathOf(SubSeq(segs, 1, k)))
          ELSE shifted[k].ret = None

\* C15, amended: for such a PATH_INFO the k-th call returns sk and leaves
\* PATH_INFO /s(k+1)/.../sn, and the calls after the n-th return None and
\* change nothing; SCRIPT_NAME after the k-th call is /s1/.../sk when none of
\* s1 ... sk is "..", and in general what is left of /s1/.../sk when every
\* ".." has taken away the segment before it.
C15_SegmentsInOrderNormalized ==
    \A segs \in SegmentLists(Segments \ { << >>, <<".">> }) :
      BaseScriptName = << >> /\ BasePathInfo = PathOf(segs) =>
        \A k \in 1..Len(shifted) :
          IF k <= Len(segs)
          THEN /\ shifted[k].ret = Bytes(segs[k])
               /\ shifted[k].path_info = Bytes(PathOf(SubSeq(segs, k + 1, Len(segs))))
               /\ shifted[k].script_name
                    = Bytes(PathOf(Resolved(SubSeq(segs, 1, k), << >>)))
               /\ (\A j \in 1..k : segs[j] # <<".", ".">>) =>
                    shifted[k].script_name = Bytes(PathOf(SubSeq(segs, 1, k)))
          ELSE /\ shifted[k].ret = None
               /\ shifted[k].path_info = Bytes(<< >>)
               /\ shifted[k].script_name = shifted[Len(segs)].script_name

\* "/a/b/c": a, b, c, then None; SCRIPT_NAME /a, /a/b, /a/b/c
C15_Witness ==
    /\ BaseScriptName = << >> /\ BasePathInfo = <<"/","a","/","b","/","c">>
    /\ Len(shifted) = 4
    /\ shifted[1].ret = Bytes(<<"a">>) /\ shifted[1].script_name = Bytes(<<"/","a">>)
    /\ shifted[2].ret = Bytes(<<"b">>) /\ shifted[2].script_name = Bytes(<<"/","a","/","b">>)
    /\ shifted[3].ret = Bytes(<<"c">>)
    /\ shifted[3].script_name = Bytes(<<"/","a","/","b","/","c">>)
    /\ shifted[4].ret = None

C17_BaseUriOfBuiltEnviron ==
    ( /\ BaseScriptName = << >> /\ BasePathInfo = <<"/">>
      /\ "HTTP_HOST" \in DOMAIN base_env.map
      /\ "wsgi.url_scheme" \notin DOMAIN base_env.map
      /\ uri # None ) =>
      /\ environ.map["web3.url_scheme"] = Bytes(<<"h","t","t","p">>)
      /\ uri = Bytes(<<"h","t","t","p",":","/","/">> \o ExampleCom.chars \o <<"/">>)

\* C18: no step of any run() changes the dict object os_environ or the dict
\* object base_env, whatever the application does to its environ; os_environ
\* is what it was when the class was created, and every setup_environ makes
\* self.environ a mapping built from the two as they were then.
C18_SourceMappingsUnchanged ==
    [][ /\ os_environ_obj' = os_environ_obj
        /\ os_environ_obj = os_environ
        /\ base_env' = base_env
        /\ pc = "setup_environ" /\ pc' = "application" =>
             environ' = EnvComplete(EnvBeforeScriptName(os_environ, base_env),
                                    origin_server, server_software) ]_vars

\* the second run() on a handler: in both runs the application has shifted
\* PATH_INFO "/a/b" away, and base_env and os_environ are as they were
C18_Witness ==
    /\ Len(previous) = 1 /\ previous[1].shifts >= 2
    /\ pc = "application" /\ Len(shifted) = 2
    /\ environ.map["PATH_INFO"] = Bytes(<< >>)
    /\ environ.map["SCRIPT_NAME"] = Bytes(<<"/","a","/","b">>)
    /\ base_env.map["PATH_INFO"] = Bytes(<<"/","a","/","b">>)
    /\ base_env.map["SCRIPT_NAME"] = Bytes(<< >>)
    /\ os_environ_obj = os_environ

\* shift_path_info applied k times
RECURSIVE ShiftedTimes(_, _)
ShiftedTimes(env, k) ==
    IF k = 0 THEN env ELSE ShiftedTimes(shift_path_info(env).environ, k - 1)

\* What the run() of the instance h shows when h is the only handler there
\* is: its environ is built from os_environ as the class has it and from
\* its own base_env, and changed by its own application only; what its
\* transport has received is a prefix of its own response (all of it when
\* its run() has ended without failure), or of the error output after its
\* application has raised.
Alone(h) ==
    LET env == EnvComplete(EnvBeforeScriptName(os_environ, h.base_env),
                           h.origin_server, h.server_software)
        res == h.app_result
    IN  /\ h.pc = "application" /\ h.phase = "try" =>
             h.environ = ShiftedTimes(env, Len(h.shifted))
        /\ h.pc = "setup_environ" => h.out = << >> /\ h.errlog = << >>
        /\ res.kind = "triple" /\ (h.phase = "try" \/ h.handle_error_calls = 0) =>
             \E now \in Timestamps :
               LET expected == HeaderBlock(h.origin_server, env, res.status, res.headers,
                                           h.server_software, now) \o res.body.chunks
               IN  /\ IsPrefix(h.out, expected)
                   /\ h.pc = "done" => h.out = expected
        /\ res.kind = "raised" =>
             /\ \E now \in Timestamps :
                  IsPrefix(h.out, HeaderBlock(h.origin_server, env, error_status,
                                              error_headers, h.server_software, now)
                                  \o error_body.chunks)
             /\ \A i \in 1..Len(h.errlog) : h.errlog[i] = h.primary

\* C19: with the steps of two handler instances interleaved in any order,
\* each instance shows what it shows alone; the dict object os_environ, the
\* one thing both are bound to, never changes; a step of one instance leaves
\* everything of the other as it is, and handing over changes neither.
C19_InstancesIsolated ==
    /\ [](Alone(Instance) /\ Alone(peer) /\ os_environ_obj = os_environ)
    /\ [][focus' = focus => peer' = peer]_vars
    /\ [][focus' # focus => peer' = Instance /\ Instance' = peer]_vars

\* both instances are in the middle of their responses: the CGI-style one,
\* whose application has shifted "a" and "b", has sent its header block,
\* the other one has written its first chunk
C19_Witness ==
    /\ peer # None
    /\ ~origin_server /\ peer.origin_server
    /\ pc = "write" /\ phase = "try" /\ next_chunk = 0 /\ Len(out) = 3
    /\ Len(shifted) = 2
    /\ peer.pc = "write" /\ peer.phase = "try" /\ peer.next_chunk = 1
    /\ peer.out = << Hello >>

\* C20: a step that hands a body chunk to the transport, in the loop of
\* finish_response or by a call of write() from elsewhere, starts with the
\* status set and headers_sent true; a call of write() with no status or
\* with headers_sent false gives its caller an AssertionError, and neither
\* the transport nor bytes_sent has changed.
C20_WriteAfterHeadersOnly ==
    [][ /\ (pc = "write" \/ Len(direct') > Len(direct)) /\ out' # out =>
             Truthy(status) /\ headers_sent
        /\ Len(direct') > Len(direct) /\ (~Truthy(status) \/ ~headers_sent) =>
             /\ direct'[Len(direct')].raised = "AssertionError"
             /\ out' = out /\ bytes_sent' = bytes_sent
      ]_vars

\* write() has been called while finish_response was about to send the
\* headers: the status is set, nothing is sent, the caller got the error
C20_Witness ==
    /\ pc = "send_headers" /\ Truthy(status) /\ ~headers_sent
    /\ Len(direct) = 1 /\ direct[1].raised = "AssertionError"
    /\ out = << >> /\ bytes_sent = 0

\* C21: whenever run() has finished, by returning or by raising, the handler
\* is closed: result, status, headers, body and environ are None, bytes_sent
\* is 0 and headers_sent is false.
C21_ClosedWhenRunFinishes ==
    pc = "done" => IsReset

\* C22: when the application has returned a response whose body has a
\* close() method, that method has been called exactly once when run() has
\* finished, whichever way run() went.
C22_BodyClosedOnce ==
    pc = "done" /\ app_result.kind = "triple" /\ HasClose(app_result.body) =>
      body_closes = 1

\* PATH_INFO of an environ, b'' when there is none; the number of segments
\* in it: the parts that follow the leading "/", empty ones included ("/"
\* has one, the empty segment); whether it is empty or starts with "/"
PathInfoOf(env) == GetOr(env, "PATH_INFO", Bytes(<< >>)).chars
SegmentsLeft(path_info) == Len(Split(path_info)) - 1
Rooted(path_info) == path_info = << >> \/ path_info[1] = "/"

\* C23: for a PATH_INFO that is empty or starts with "/", a call of
\* shift_path_info raises nothing; a call that returns a segment leaves
\* fewer segments in PATH_INFO than it found, a call that returns None
\* leaves PATH_INFO empty, and PATH_INFO is again empty or starting with
\* "/"; a call that finds PATH_INFO empty returns None and leaves the
\* environ as it is.  So of the calls made on a PATH_INFO of n segments,
\* at most n return a segment, one of the first n + 1 returns None, and
\* after a None every call returns None.
C23_ShiftingEnds ==
    /\ [][ pc = "application" /\ Rooted(PathInfoOf(environ)) /\ uri' = uri =>
             LET before == PathInfoOf(environ)
                 after == PathInfoOf(environ')
                 ret == shifted'[Len(shifted')].ret
             IN  /\ Len(shifted') = Len(shifted) + 1 /\ pc' = "application"
                 /\ ret # None => SegmentsLeft(after) < SegmentsLeft(before)
                 /\ ret = None => after = << >>
                 /\ Rooted(after)
                 /\ before = << >> => ret = None /\ environ' = environ
       ]_vars
    /\ [](Rooted(BasePathInfo) =>
            /\ Len(shifted) > SegmentsLeft(BasePathInfo) =>
                 \E k \in 1..(SegmentsLeft(BasePathInfo) + 1) : shifted[k].ret = None
            /\ \A j, k \in 1..Len(shifted) :
                 j < k /\ shifted[j].ret = None =>
                   /\ shifted[k].ret = None
                   /\ shifted[k].path_info = shifted[j].path_info
                   /\ shifted[k].script_name = shifted[j].script_name)

\* PATH_INFO "/a/.": the first call has returned "a" and left "/.", the
\* second has returned None and left PATH_INFO empty, the third has
\* returned None and changed nothing
C23_Witness ==
    /\ BasePathInfo = <<"/","a","/",".">>
    /\ Len(shifted) = 3
    /\ shifted[1].ret = Bytes(<<"a">>) /\ shifted[1].path_info = Bytes(<<"/",".">>)
    /\ shifted[2].ret = None /\ shifted[2].path_info = Bytes(<< >>)
    /\ shifted[3] = shifted[2]

====
